---- MODULE Spec2Model ----
(***************************************************************************)
(* Model of the restaurant assistant: the conversation controller          *)
(* (agent.py), the two-stage LLM pipeline (llm.py), the tool dispatcher    *)
(* and the booking tools (tools.py) and the per-user memory (memory.py).   *)
(*                                                                         *)
(* Python values are tagged records [t, v]:                                *)
(*   None            [t |-> "none", v |-> <<>>]                            *)
(*   str             [t |-> "str",  v |-> sequence of characters/chunks]   *)
(*   int             [t |-> "int",  v |-> n]                               *)
(*   dict            [t |-> "dict", v |-> function from keys to values]    *)
(*   list            [t |-> "list", v |-> sequence of values]              *)
(* The text an LLM call returns is [t |-> "text", v |-> tokens]; a token   *)
(* is [k, c, v]: k = "lit" is the literal piece of text c, k = "val" is    *)
(* the JSON rendering of the value v standing at that place.               *)
(***************************************************************************)
EXTENDS Integers, Sequences, FiniteSets, TLC

\* ---------------------------------------------------------------- values
PyNone == [t |-> "none", v |-> <<>>]
PyStr(s) == [t |-> "str", v |-> s]
PyInt(n) == [t |-> "int", v |-> n]
PyDict(f) == [t |-> "dict", v |-> f]
PyList(s) == [t |-> "list", v |-> s]

\* a string written as one chunk
Txt(s) == PyStr(<<s>>)

EmptyDict == PyDict(<<>>)

\* Python truthiness (bool(x))
Truthy(x) ==
  CASE x.t = "none" -> FALSE
    [] x.t = "str" -> Len(x.v) > 0
    [] x.t = "text" -> Len(x.v) > 0
    [] x.t = "int" -> x.v # 0
    [] x.t = "dict" -> DOMAIN x.v # {}
    [] x.t = "list" -> Len(x.v) > 0
    [] OTHER -> TRUE

\* dict.get(k, default) on the mapping f of a dict
Get(f, k, default) == IF k \in DOMAIN f THEN f[k] ELSE default

Whitespace == {" ", "\n", "\t"}

RECURSIVE LStrip(_)
LStrip(s) == IF Len(s) > 0 /\ s[1] \in Whitespace THEN LStrip(Tail(s)) ELSE s

RECURSIVE RStrip(_)
RStrip(s) ==
  IF Len(s) > 0 /\ s[Len(s)] \in Whitespace
    THEN RStrip(SubSeq(s, 1, Len(s) - 1))
    ELSE s

\* str.strip() on a sequence of characters
Strip(s) == RStrip(LStrip(s))

\* str.replace(a, b) where a and b are single characters
Replace(s, a, b) == [j \in 1..Len(s) |-> IF s[j] = a THEN b ELSE s[j]]

\* the decimal numerals the model reads and writes
Digits == {"0", "4"}

DigitVal(c) == IF c = "4" THEN 4 ELSE 0

\* str(v) for the values str() is applied to
StrOf(x) ==
  CASE x.t = "str" -> x.v
    [] x.t = "int" -> IF x.v = 4 THEN <<"4">> ELSE <<"0">>
    [] x.t = "dict" -> <<"{", "}">>
    [] x.t = "list" -> <<"[", "]">>
    [] OTHER -> <<"None">>

\* int(v) succeeds: an int, or a string that is a numeral once stripped
CanInt(x) ==
  \/ x.t = "int"
  \/ x.t = "str" /\ Len(Strip(x.v)) = 1 /\ Strip(x.v)[1] \in Digits

IntOf(x) == IF x.t = "int" THEN x.v ELSE DigitVal(Strip(x.v)[1])

\* ---------------------------------------------------------------- schemas
SCHEMAS ==
  [ check_availability |-> [required |-> <<"date", "people">>,
                            optional |-> <<>>],
    make_reservation   |-> [required |-> <<"date", "time", "people">>,
                            optional |-> <<"SpecialRequests",
                                           "IsLeaveTimeConfirmed",
                                           "RoomNumber",
                                           "Customer[Title]",
                                           "Customer[FirstName]",
                                           "Customer[Surname]",
                                           "Customer[Email]",
                                           "Customer[Mobile]",
                                           "Customer[Phone]",
                                           "Customer[MobileCountryCode]",
                                           "Customer[PhoneCountryCode]",
                                           "Customer[ReceiveEmailMarketing]",
                                           "Customer[ReceiveSmsMarketing]">>],
    check_reservation  |-> [required |-> <<"booking_reference">>,
                            optional |-> <<>>],
    modify_reservation |-> [required |-> <<"booking_reference">>,
                            optional |-> <<"VisitDate", "VisitTime",
                                           "PartySize", "SpecialRequests",
                                           "IsLeaveTimeConfirmed">>],
    cancel_reservation |-> [required |-> <<"booking_reference">>,
                            optional |-> <<>>] ]

\* the handlers the dispatcher knows (agent.py, tool_registry)
tool_registry ==
  {"check_availability", "make_reservation", "check_reservation",
   "modify_reservation", "cancel_reservation"}

\* name in SCHEMAS, for the value found under "name"
InSchemas(name) ==
  name.t = "str" /\ Len(name.v) = 1 /\ name.v[1] \in DOMAIN SCHEMAS

\* the characters of a key, as str.replace sees them
KeyText(k) ==
  CASE k = "booking_reference" -> <<"booking", "_", "reference">>
    [] k = "new_date_or_new_time" ->
         <<"new", "_", "date", "_", "or", "_", "new", "_", "time">>
    [] OTHER -> <<k>>

\* ------------------------------------------------- text returned by the LLM
Chunk(c) == [k |-> "lit", c |-> c, v |-> PyNone]
Json(x) == [k |-> "val", c |-> "", v |-> x]
Text(toks) == [t |-> "text", v |-> toks]

IsSpace(tok) == tok.k = "lit" /\ tok.c \in Whitespace
\* the chunk "<fence>" stands for a run of three backquotes
IsFence(tok) == tok.k = "lit" /\ tok.c = "<fence>"

RECURSIVE LStripTok(_)
LStripTok(s) == IF Len(s) > 0 /\ IsSpace(s[1]) THEN LStripTok(Tail(s)) ELSE s

RECURSIVE RStripTok(_)
RStripTok(s) ==
  IF Len(s) > 0 /\ IsSpace(s[Len(s)])
    THEN RStripTok(SubSeq(s, 1, Len(s) - 1))
    ELSE s

\* str.strip() on a token text
StripTok(s) == RStripTok(LStripTok(s))

RECURSIVE LStripFence(_)
LStripFence(s) ==
  IF Len(s) > 0 /\ IsFence(s[1]) THEN LStripFence(Tail(s)) ELSE s

RECURSIVE RStripFence(_)
RStripFence(s) ==
  IF Len(s) > 0 /\ IsFence(s[Len(s)])
    THEN RStripFence(SubSeq(s, 1, Len(s) - 1))
    ELSE s

\* str.strip of the backquote character
StripFence(s) == RStripFence(LStripFence(s))

\* str.lower() on a chunk
Lower(c) == IF c = "JSON" THEN "json" ELSE c

\* json.loads: one JSON value, white space around it allowed
JsonLoads(s) ==
  LET r == StripTok(s)
  IN IF Len(r) = 1 /\ r[1].k = "val"
       THEN [ok |-> TRUE, val |-> r[1].v]
       ELSE [ok |-> FALSE, val |-> PyNone]

\* GeminiLLM._safe_json_load
safe_json_load(text) ==
  IF ~Truthy(text) THEN PyNone
  ELSE
    LET s0 == StripTok(text.v)
        s1 == IF Len(s0) > 0 /\ IsFence(s0[1])
                THEN LET f == StripFence(s0)
                     IN IF Len(f) > 0 /\ f[1].k = "lit"
                           /\ Lower(f[1].c) = "json"
                          THEN StripTok(Tail(f))
                          ELSE f
                ELSE s0
        r == JsonLoads(s1)
    IN IF r.ok THEN r.val ELSE PyNone

\* the token holds a "{" / a "}"
HasOpen(tok) ==
  \/ tok.k = "lit" /\ tok.c = "{"
  \/ tok.k = "val" /\ tok.v.t = "dict"

HasClose(tok) ==
  \/ tok.k = "lit" /\ tok.c = "}"
  \/ tok.k = "val" /\ tok.v.t = "dict"

\* data is a dict with a dict under "tool_call"
IsToolCallObject(data) ==
  /\ data.t = "dict"
  /\ "tool_call" \in DOMAIN data.v
  /\ data.v["tool_call"].t = "dict"

\* GeminiLLM._extract_tool_call
extract_tool_call(text) ==
  IF ~Truthy(text) THEN PyNone
  ELSE
    LET s == text.v
        direct == JsonLoads(s)
        opens == {j \in 1..Len(s) : HasOpen(s[j])}
        closes == {j \in 1..Len(s) : HasClose(s[j])}
    IN IF direct.ok /\ IsToolCallObject(direct.val)
         THEN direct.val.v["tool_call"]
         ELSE IF opens # {} /\ closes # {}
           THEN LET lb == CHOOSE j \in opens : \A m \in opens : j <= m
                    rb == CHOOSE j \in closes : \A m \in closes : j >= m
                    inner == IF rb >= lb
                               THEN JsonLoads(SubSeq(s, lb, rb))
                               ELSE [ok |-> FALSE, val |-> PyNone]
                IN IF inner.ok /\ IsToolCallObject(inner.val)
                     THEN inner.val.v["tool_call"]
                     ELSE PyNone
           ELSE PyNone

\* the shape test without the ban on extra keys
validate_receptionist_json_ExtraKeys(obj) ==
  /\ obj.t = "dict"
  /\ {"channel", "message"} \subseteq DOMAIN obj.v
  /\ obj.v["channel"] \in {Txt("to_user"), Txt("to_data_entry")}
  /\ obj.v["message"].t = "str"

\* GeminiLLM._validate_receptionist_json
validate_receptionist_json(obj) ==
  /\ obj.t = "dict"
  /\ DOMAIN obj.v = {"channel", "message"}
  /\ obj.v["channel"] \in {Txt("to_user"), Txt("to_data_entry")}
  /\ obj.v["message"].t = "str"

\* --------------------------------------------------- validation and helpers
\* the presence test without .strip()
present_NoStrip(x) == x.t # "none" /\ StrOf(x) # <<>>

\* GeminiLLM._present
present(x) == x.t # "none" /\ Strip(StrOf(x)) # <<>>

\* tool_call.get("args", {}) or {}
ArgsOrEmpty(tc) ==
  LET a == Get(tc.v, "args", EmptyDict)
  IN IF Truthy(a) THEN a ELSE EmptyDict

\* GeminiLLM._validate_tool_call: the value it returns; every exception
\* inside (a name that cannot be hashed, args without .get) is caught and
\* gives False
validate_tool_call(tc) ==
  LET name == Get(tc.v, "name", PyNone)
      args == ArgsOrEmpty(tc)
  IN /\ name.t \notin {"dict", "list"}
     /\ InSchemas(name)
     /\ args.t = "dict"
     /\ \A j \in 1..Len(SCHEMAS[name.v[1]].required) :
          present(Get(args.v, SCHEMAS[name.v[1]].required[j], PyNone))
     /\ ("people" \in DOMAIN args.v => CanInt(args.v["people"]))

\* the tool call as _validate_tool_call leaves it when it returns True:
\* args["people"] replaced by its int
validated_tool_call(tc) ==
  LET args == ArgsOrEmpty(tc)
  IN IF "people" \in DOMAIN args.v
       THEN PyDict([tc.v EXCEPT
              !["args"] = PyDict([args.v EXCEPT
                             !["people"] = PyInt(IntOf(args.v["people"]))])])
       ELSE tc

\* GeminiLLM._missing_from_tool_call raises: the name cannot be hashed, or
\* args is a non-empty value without .get
missing_raises(tc) ==
  /\ Truthy(tc)
  /\ LET name == Get(tc.v, "name", PyNone)
         args == ArgsOrEmpty(tc)
     IN \/ name.t \in {"dict", "list"}
        \/ InSchemas(name) /\ args.t # "dict"

\* GeminiLLM._missing_from_tool_call, when it does not raise
missing_from_tool_call(tc) ==
  IF ~Truthy(tc) THEN <<>>
  ELSE
    LET name == Get(tc.v, "name", PyNone)
        args == ArgsOrEmpty(tc)
    IN IF ~InSchemas(name) THEN <<>>
       ELSE
         LET miss == SelectSeq(SCHEMAS[name.v[1]].required,
                       LAMBDA k : ~present(Get(args.v, k, PyNone)))
         IN IF /\ name = Txt("modify_reservation")
               /\ ~(\/ present(Get(args.v, "new_date", PyNone))
                    \/ present(Get(args.v, "new_time", PyNone)))
              THEN Append(miss, "new_date_or_new_time")
              ELSE miss

\* the fixed texts of the pipeline and the controller
TroubleText == Txt("I'm having trouble understanding,could you confirm the date, time, and (if booking) the number of people?")
MoreDetailText == Txt("Could you share a bit more detail so I can help?")
ClarifyChannelText == Txt("Could you clarify your request?")
TechnicalErrorText == Txt("Sorry, I encountered some technical errors, can you resate your request?")
FallbackQuestion == Txt("Could you confirm the date and time (and number of people if booking)?")
NeedDetailText == Txt("I need a bit more detail to proceed-could you confirm the date and time?")
DateOrTimeQuestion == Txt("Would you like to change the date, the time, or both for your reservation? Please provide the new values.")
ApologyText == Txt("Sorry, I have encountered an error, please can you repeat your request")

\* m.replace('_', ' ')
Humanize(k) == Replace(KeyText(k), "_", " ")

\* GeminiLLM._compose_missing_question
compose_missing_question(missing) ==
  IF Len(missing) = 0 THEN NeedDetailText
  ELSE IF \E j \in 1..Len(missing) : missing[j] = "new_date_or_new_time"
    THEN DateOrTimeQuestion
  ELSE IF Len(missing) = 1
    THEN PyStr(<<"Got it, could you please share the ">>
               \o Humanize(missing[1]) \o <<"?">>)
  ELSE PyStr(<<"Thanks! I still need: ">> \o Humanize(missing[1])
             \o <<", ">> \o Humanize(missing[2]) \o <<".">>)

\* ------------------------------------------------------------ booking tools
\* An outcome of the booking API for one HTTP request (requests.post/get/
\* patch followed by raise_for_status and response.json()):
\*   [k |-> "ok", body |-> the decoded JSON], [k |-> "request_error"],
\*   [k |-> "bad_json"]
\* A handler run gives [kind, value, sent]: kind "return" with the returned
\* value, "ToolError" or "Exception" with the message; sent is the sequence
\* of HTTP requests made (none or one).
Ret(x, sent) == [kind |-> "return", value |-> x, sent |-> sent]
TErr(msg, sent) == [kind |-> "ToolError", value |-> PyStr(msg), sent |-> sent]
Exc(msg, sent) == [kind |-> "Exception", value |-> PyStr(msg), sent |-> sent]

\* an HTTP request: the booking reference in the URL (None when the URL has
\* none) and the form data
Request(method, endpoint, reference, data) ==
  [method |-> method, endpoint |-> endpoint, reference |-> reference,
   data |-> data]

\* call_api / call_api_get: the request is sent, failures become ToolError
CallApi(req, api, Cont(_)) ==
  CASE api.k = "request_error" ->
         TErr(<<"API request failed: ", "error">>, <<req>>)
    [] api.k = "bad_json" ->
         TErr(<<"Invalid JSON response from server.">>, <<req>>)
    [] OTHER -> Cont(api.body)

\* datetime.strptime(s, "%Y-%m-%d") accepts s (one or two digit month and
\* day are accepted by strptime)
YearChunks == {"2025"}
MonthChunks == {"08", "8"}
DayChunks == {"10", "1"}

StrptimeDate(s) ==
  /\ Len(s) = 5
  /\ s[1] \in YearChunks /\ s[2] = "-" /\ s[3] \in MonthChunks
  /\ s[4] = "-" /\ s[5] \in DayChunks

\* datetime.strptime(s, "%H:%M:%S") accepts s
HourChunks == {"19", "7"}
MinuteChunks == {"00"}
SecondChunks == {"00"}

StrptimeTime(s) ==
  /\ Len(s) = 5
  /\ s[1] \in HourChunks /\ s[2] = ":" /\ s[3] \in MinuteChunks
  /\ s[4] = ":" /\ s[5] \in SecondChunks

\* len(time_str.split(":"))
NumParts(s) == 1 + Cardinality({j \in 1..Len(s) : s[j] = ":"})

\* _normalize_time, for a str with two or three parts
normalize_time(s) == IF NumParts(s) = 2 THEN s \o <<":", "00">> ELSE s

\* _bool_to_str
bool_to_str(x) == IF Truthy(x) THEN Txt("true") ELSE Txt("false")

\* the parameters of each handler: those without and with a default
Params ==
  [ check_availability |-> [req |-> {"date", "people"}, opt |-> {}],
    make_reservation   |-> [req |-> {"date", "time", "people"},
                            opt |-> {"channel_code", "special_requests",
                                     "is_leave_time_confirmed",
                                     "room_number", "customer"}],
    check_reservation  |-> [req |-> {"booking_reference"}, opt |-> {}],
    modify_reservation |-> [req |-> {"booking_reference"},
                            opt |-> {"VisitDate", "VisitTime", "PartySize",
                                     "SpecialRequests",
                                     "IsLeaveTimeConfirmed"}],
    cancel_reservation |-> [req |-> {"booking_reference"}, opt |-> {}] ]

\* tool_func(**args) binds: args is a mapping whose keys are parameters and
\* cover the parameters without default
Binds(name, args) ==
  /\ args.t = "dict"
  /\ DOMAIN args.v \subseteq Params[name].req \cup Params[name].opt
  /\ Params[name].req \subseteq DOMAIN args.v

\* check_availability
check_availability(a, api) ==
  IF ~Truthy(a["date"]) \/ ~Truthy(a["people"])
    THEN TErr(<<"Missing date people for availability check.">>, <<>>)
    ELSE
      LET req == Request("POST", "AvailabilitySearch", PyNone,
                   [VisitDate |-> a["date"], PartySize |-> a["people"],
                    ChannelCode |-> Txt("ONLINE")])
          Cont(body) ==
            IF body.t # "dict"
              THEN Exc(<<"indices must be integers">>, <<req>>)
            ELSE IF "available_slots" \notin DOMAIN body.v
              THEN Exc(<<"'available_slots'">>, <<req>>)
            ELSE Ret(body.v["available_slots"], <<req>>)
      IN CallApi(req, api, Cont)

\* make_reservation
make_reservation(a, api) ==
  LET date == a["date"]
      time == a["time"]
      people == a["people"]
      special_requests == Get(a, "special_requests", PyNone)
      is_leave_time_confirmed == Get(a, "is_leave_time_confirmed", PyNone)
      room_number == Get(a, "room_number", PyNone)
      customer == Get(a, "customer", PyNone)
  IN IF ~(Truthy(date) /\ Truthy(time) /\ Truthy(people))
       THEN TErr(<<"Missing one or more booking parameters.">>, <<>>)
     ELSE IF people.t # "int"
       THEN Exc(<<"'<=' not supported">>, <<>>)
     ELSE IF people.v <= 0
       THEN TErr(<<"PartySize must be a positive integer.">>, <<>>)
     ELSE IF date.t # "str"
       THEN Exc(<<"strptime() argument 1 must be str">>, <<>>)
     ELSE IF ~StrptimeDate(date.v)
       THEN TErr(<<"VisitDate must be in YYYY-MM-DD format.">>, <<>>)
     ELSE IF time.t # "str"
       THEN Exc(<<"object has no attribute 'split'">>, <<>>)
     ELSE IF NumParts(time.v) \notin {2, 3}
       THEN TErr(<<"VisitTime must be HH:MM or HH:MM:SS.">>, <<>>)
     ELSE IF ~StrptimeTime(normalize_time(time.v))
       THEN TErr(<<"VisitTime must be in HH:MM:SS format.">>, <<>>)
     ELSE
       LET base == [k \in {"VisitDate", "VisitTime", "PartySize",
                           "ChannelCode"} |->
                      CASE k = "VisitDate" -> date
                        [] k = "VisitTime" -> PyStr(normalize_time(time.v))
                        [] k = "PartySize" -> PyStr(StrOf(people))
                        [] OTHER -> Get(a, "channel_code", Txt("ONLINE"))]
           extra == {k \in {"SpecialRequests", "IsLeaveTimeConfirmed",
                            "RoomNumber", "Customer"} :
                       CASE k = "SpecialRequests" -> Truthy(special_requests)
                         [] k = "IsLeaveTimeConfirmed" ->
                              is_leave_time_confirmed.t # "none"
                         [] k = "RoomNumber" -> Truthy(room_number)
                         [] OTHER -> Truthy(customer)}
           \* the customer fields kept: not None, not blank once stripped
           \* (sent flattened, one form field Customer[key] each)
           kept == IF customer.t = "dict"
                     THEN {k \in DOMAIN customer.v : present(customer.v[k])}
                     ELSE {}
           payload == [k \in DOMAIN base \cup extra |->
                         CASE k \in DOMAIN base -> base[k]
                           [] k = "SpecialRequests" -> special_requests
                           [] k = "IsLeaveTimeConfirmed" ->
                                bool_to_str(is_leave_time_confirmed)
                           [] k = "RoomNumber" -> room_number
                           [] OTHER ->
                                PyDict([k2 \in kept |->
                                  PyStr(Strip(StrOf(customer.v[k2])))])]
           req == Request("POST", "BookingWithStripeToken", PyNone, payload)
           Cont(body) ==
             IF body.t # "dict"
               THEN Exc(<<"object has no attribute 'get'">>, <<req>>)
             ELSE IF Truthy(Get(body.v, "booking_reference", PyNone))
               THEN Ret(PyStr(<<"Reservation confirmed! Your reference is ">>
                          \o StrOf(body.v["booking_reference"]) \o <<".">>),
                        <<req>>)
             ELSE TErr(<<"Failed to book reservation.">>, <<req>>)
       IN IF Truthy(customer) /\ customer.t # "dict"
            THEN Exc(<<"object has no attribute 'items'">>, <<>>)
            ELSE CallApi(req, api, Cont)

\* check_reservation without the test of the booking reference
check_reservation_NoGuard(a, api) ==
  LET req == Request("GET", "Booking", a["booking_reference"], <<>>)
      Cont(body) == Ret(body, <<req>>)
  IN CallApi(req, api, Cont)

\* check_reservation
check_reservation(a, api) ==
  IF ~Truthy(a["booking_reference"])
    THEN TErr(<<"Booking reference is required.">>, <<>>)
    ELSE
      LET req == Request("GET", "Booking", a["booking_reference"], <<>>)
          Cont(body) == Ret(body, <<req>>)
      IN CallApi(req, api, Cont)

\* modify_reservation
modify_reservation(a, api) ==
  LET ref == a["booking_reference"]
      VisitDate == Get(a, "VisitDate", PyNone)
      VisitTime == Get(a, "VisitTime", PyNone)
      PartySize == Get(a, "PartySize", PyNone)
      SpecialRequests == Get(a, "SpecialRequests", PyNone)
      IsLeaveTimeConfirmed == Get(a, "IsLeaveTimeConfirmed", PyNone)
      changed == {k \in {"VisitDate", "VisitTime", "PartySize",
                         "SpecialRequests", "IsLeaveTimeConfirmed"} :
                    CASE k = "VisitDate" -> Truthy(VisitDate)
                      [] k = "VisitTime" -> Truthy(VisitTime)
                      [] k = "PartySize" -> PartySize.t # "none"
                      [] k = "SpecialRequests" -> Truthy(SpecialRequests)
                      [] OTHER -> IsLeaveTimeConfirmed.t # "none"}
  IN IF ~Truthy(ref)
       THEN TErr(<<"Booking reference is required to modify a reservation.">>,
                 <<>>)
     ELSE IF Truthy(VisitDate) /\ VisitDate.t # "str"
       THEN Exc(<<"strptime() argument 1 must be str">>, <<>>)
     ELSE IF Truthy(VisitDate) /\ ~StrptimeDate(VisitDate.v)
       THEN TErr(<<"VisitDate must be in YYYY-MM-DD format.">>, <<>>)
     ELSE IF Truthy(VisitTime) /\ VisitTime.t # "str"
       THEN Exc(<<"object has no attribute 'split'">>, <<>>)
     ELSE IF Truthy(VisitTime) /\ NumParts(VisitTime.v) \notin {2, 3}
       THEN TErr(<<"VisitTime must be HH:MM or HH:MM:SS.">>, <<>>)
     ELSE IF Truthy(VisitTime) /\ ~StrptimeTime(normalize_time(VisitTime.v))
       THEN TErr(<<"VisitTime must be in HH:MM:SS format.">>, <<>>)
     ELSE IF PartySize.t # "none" /\ ~CanInt(PartySize)
       THEN Exc(<<"invalid literal for int()">>, <<>>)
     ELSE IF PartySize.t # "none" /\ IntOf(PartySize) <= 0
       THEN TErr(<<"PartySize must be a positive integer.">>, <<>>)
     ELSE IF changed = {}
       THEN TErr(<<"No changes provided. Include at least one field to modify.">>,
                 <<>>)
     ELSE
       LET payload == [k \in changed |->
                         CASE k = "VisitDate" -> VisitDate
                           [] k = "VisitTime" ->
                                PyStr(normalize_time(VisitTime.v))
                           [] k = "PartySize" ->
                                PyStr(StrOf(PyInt(IntOf(PartySize))))
                           [] k = "SpecialRequests" -> SpecialRequests
                           [] OTHER -> bool_to_str(IsLeaveTimeConfirmed)]
           req == Request("PATCH", "Booking", ref, payload)
           Cont(body) == Ret(PyStr(StrOf(body)), <<req>>)
       IN CallApi(req, api, Cont)

\* cancel_reservation
cancel_reservation(a, api) ==
  IF ~Truthy(a["booking_reference"])
    THEN TErr(<<"Booking reference is required for cancellation.">>, <<>>)
    ELSE
      LET req == Request("POST", "Booking/Cancel", a["booking_reference"],
                   [micrositeName |-> Txt("TheHungryUnicorn"),
                    bookingReference |-> a["booking_reference"],
                    cancellationReasonId |-> PyInt(1)])
          Cont(body) == Ret(PyStr(StrOf(body)), <<req>>)
      IN CallApi(req, api, Cont)

\* tool_func(**args) for the handler registered under name
RunHandler(name, args, api) ==
  IF ~Binds(name, args)
    THEN Exc(<<"unexpected or missing argument">>, <<>>)
    ELSE CASE name = "check_availability" -> check_availability(args.v, api)
           [] name = "make_reservation" -> make_reservation(args.v, api)
           [] name = "check_reservation" -> check_reservation(args.v, api)
           [] name = "modify_reservation" -> modify_reservation(args.v, api)
           [] OTHER -> cancel_reservation(args.v, api)

\* execute_tool without its last except clause: a failure of the handler
\* call that is not a ToolError leaves execute_tool as an exception
execute_tool_NoCatchAll(tool_call, api) ==
  LET tool_name == Get(tool_call.v, "name", PyNone)
      args == Get(tool_call.v, "args", EmptyDict)
      known == InSchemas(tool_name) /\ tool_name.v[1] \in tool_registry
  IN IF ~known
       THEN [value |-> PyStr(<<"[Error] Unknown tool: ">> \o StrOf(tool_name)),
             called |-> FALSE, outcome |-> "unknown", message |-> PyNone,
             sent |-> <<>>]
       ELSE
         LET r == RunHandler(tool_name.v[1], args, api)
         IN [value |-> CASE r.kind = "return" -> r.value
                         [] r.kind = "ToolError" ->
                              PyStr(<<"[Tool Error] ">> \o r.value.v)
                         [] OTHER -> PyNone,
             called |-> TRUE,
             outcome |-> IF r.kind = "Exception" THEN "raised" ELSE r.kind,
             message |-> r.value, sent |-> r.sent]

\* ConversationalAgent.execute_tool, for a tool call whose name is a str or
\* None: the value returned, whether a handler was called, how the handler
\* ended, what it returned or the message of what it raised, the requests
\* sent
execute_tool(tool_call, api) ==
  LET tool_name == Get(tool_call.v, "name", PyNone)
      args == Get(tool_call.v, "args", EmptyDict)
      known == InSchemas(tool_name) /\ tool_name.v[1] \in tool_registry
  IN IF ~known
       THEN [value |-> PyStr(<<"[Error] Unknown tool: ">> \o StrOf(tool_name)),
             called |-> FALSE, outcome |-> "unknown", message |-> PyNone,
             sent |-> <<>>]
       ELSE
         LET r == RunHandler(tool_name.v[1], args, api)
         IN [value |-> CASE r.kind = "return" -> r.value
                         [] r.kind = "ToolError" ->
                              PyStr(<<"[Tool Error] ">> \o r.value.v)
                         [] OTHER ->
                              PyStr(<<"[Execution Error] Something went wrong while using ">>
                                    \o StrOf(tool_name) \o <<": ">>
                                    \o r.value.v),
             called |-> TRUE, outcome |-> r.kind, message |-> r.value,
             sent |-> r.sent]

\* ------------------------------------------------------------------ memory
\* The summary file of a user is a sequence of file characters
\* [k, c, v]: k = "ch" is the character c; k = "timestamp" and
\* k = "messages" stand for the JSON rendering of the record's timestamp and
\* of its messages (the history v), which json.dumps writes on one line.
FCh(c) == [k |-> "ch", c |-> c, v |-> <<>>]
FTime == [k |-> "timestamp", c |-> "", v |-> <<>>]
FMsgs(h) == [k |-> "messages", c |-> "", v |-> h]

QT == "\""
BS == "\\"
NL == "\n"

\* the characters written as they are
JsonEscape_Raw(s) == s

\* json.dumps of a str, without the enclosing quotes
RECURSIVE JsonEscape(_)
JsonEscape(s) ==
  IF Len(s) = 0 THEN <<>>
  ELSE (CASE s[1] = QT -> <<BS, QT>>
          [] s[1] = BS -> <<BS, BS>>
          [] s[1] = NL -> <<BS, "n">>
          [] OTHER -> <<s[1]>>) \o JsonEscape(Tail(s))

\* json.loads of a str: reads line from position j (after the opening
\* quote) up to the closing quote
RECURSIVE JsonReadString(_, _, _)
JsonReadString(line, j, acc) ==
  IF j > Len(line) \/ line[j].k # "ch" \/ line[j].c = NL
    THEN [ok |-> FALSE, val |-> <<>>, next |-> j]
  ELSE IF line[j].c = QT
    THEN [ok |-> TRUE, val |-> acc, next |-> j + 1]
  ELSE IF line[j].c = BS
    THEN IF j + 1 > Len(line) \/ line[j + 1].k # "ch"
              \/ line[j + 1].c \notin {QT, BS, "n"}
           THEN [ok |-> FALSE, val |-> <<>>, next |-> j]
           ELSE JsonReadString(line, j + 2,
                  Append(acc, CASE line[j + 1].c = QT -> QT
                                [] line[j + 1].c = BS -> BS
                                [] OTHER -> NL))
  ELSE JsonReadString(line, j + 1, Append(acc, line[j].c))

\* json.dumps(record) + "\n" as Memory.store_summary writes it
RecordLine(summary, h) ==
  <<FCh("{"), FTime, FCh(QT)>>
    \o [j \in 1..Len(JsonEscape(summary.v)) |-> FCh(JsonEscape(summary.v)[j])]
    \o <<FCh(QT), FMsgs(h), FCh("}"), FCh(NL)>>

\* the file opened for writing instead of appending
store_summary_Overwrite(f, summary, h) == RecordLine(summary, h)

\* Memory.store_summary: the file after the append
store_summary(f, summary, h) == f \o RecordLine(summary, h)

\* f.readlines()[-1]: the last line of a non-empty file
LastLine(f) ==
  LET body == IF f[Len(f)] = FCh(NL) THEN SubSeq(f, 1, Len(f) - 1) ELSE f
      nls == {j \in 1..Len(body) : body[j] = FCh(NL)}
      from == IF nls = {} THEN 1
              ELSE 1 + CHOOSE j \in nls : \A m \in nls : j >= m
  IN SubSeq(f, from, Len(f))

\* json.loads(line).get("summary"); None when the line is not a record
\* (the exception is caught)
LineSummary(line) ==
  LET l == IF Len(line) > 0 /\ line[Len(line)] = FCh(NL)
             THEN SubSeq(line, 1, Len(line) - 1) ELSE line
  IN IF Len(l) < 6 \/ l[1] # FCh("{") \/ l[2] # FTime \/ l[3] # FCh(QT)
       THEN PyNone
       ELSE LET r == JsonReadString(l, 4, <<>>)
            IN IF /\ r.ok
                  /\ r.next + 1 = Len(l)
                  /\ l[r.next].k = "messages"
                  /\ l[r.next + 1] = FCh("}")
                 THEN PyStr(r.val)
                 ELSE PyNone

\* Memory.get_last_summary
get_last_summary(f) == IF Len(f) = 0 THEN PyNone ELSE LineSummary(LastLine(f))

Turn(role, content) == [role |-> role, content |-> content]

GenericGreeting == Txt("Hello! I'm your restaurant assistant. How can I help you make or manage a reservation?")

\* the greeting of start_conversation
Greeting(user_summary) ==
  IF Truthy(user_summary)
    THEN PyStr(<<"Welcome back! Last time, you said: ", QT>>
               \o StrOf(user_summary)
               \o <<QT, ". How can I assist you today?">>)
    ELSE GenericGreeting

SummaryUnavailable == Txt("[Summary unavailable]")

\* the summary without the placeholder
summarize_NoPlaceholder(raw) == raw

\* GeminiLLM.summarize: raw is what _call_openrouter returned
summarize(raw) == IF Truthy(raw) THEN raw ELSE SummaryUnavailable

\* the text end_session returns
ClosingText(summary) ==
  PyStr(<<"Thanks for chatting! I've saved this summary: ", NL, NL, QT>>
        \o StrOf(summary) \o <<QT>>)

\* ------------------------------------------------------------------- state
Users == {"u1", "u2"}

\* bounds of the model: user turns per session, ended sessions in all
MaxTurns == 2
MaxSessions == 2
LiveTurns == 1

VARIABLES
  user_memories,  \* MemoryManager.user_memories: the ids that have a Memory
  history,        \* Memory.history of each user id
  file,           \* the summary file of each user id
  pc,             \* where the request serving each user id stands:
                  \*   "idle" no request, "rec" in _receptionist before an
                  \*   LLM call, "ext" in _data_entry_worker before an LLM
                  \*   call, "loop" at the loop test of handle_user_input,
                  \*   "tool" in execute_tool before the handler runs
  loc,            \* the local variables of that request; raw is the
                  \*   output of the last LLM call of the stage it is in
  out,            \* the last response given for each user id
  obs,            \* observers: counters of the current user turn and
                  \*   session, the summaries passed to store_summary
  fin,            \* input of a function applied on its own
  fout            \* its result

vars == <<user_memories, history, file, pc, loc, out, obs, fin, fout>>

\* no execute_tool has run yet
NoExec == [value |-> PyNone, called |-> FALSE, outcome |-> "none",
           message |-> PyNone, sent |-> <<>>]

NoLocals ==
  [i |-> 0, attempt |-> 0, raw |-> PyNone, rec_obj |-> PyNone,
   msg |-> PyNone, llm_reply |-> PyNone, tool_call |-> PyNone,
   exec |-> NoExec]

NoObs ==
  [starts |-> 0, turns |-> 0, sessions |-> 0,
   pipeCalls |-> 0, dispatched |-> 0, llmCalls |-> 0,
   recCalls |-> 0, recBad |-> 0, extCalls |-> 0, extParsed |-> 0,
   stored |-> <<>>]

\* a response: the operation ("start", "chat", "end"), whether it returned
\* or raised, and the value returned or the exception raised
NoOut == [op |-> "none", kind |-> "none", value |-> PyNone]
Returned(op, x) == [op |-> op, kind |-> "returned", value |-> x]
Raised(op, e) == [op |-> op, kind |-> "raised", value |-> Txt(e)]

InitProgram ==
  /\ user_memories = {}
  /\ history = [u \in Users |-> <<>>]
  /\ file = [u \in Users |-> <<>>]
  /\ pc = [u \in Users |-> "idle"]
  /\ loc = [u \in Users |-> NoLocals]
  /\ out = [u \in Users |-> NoOut]
  /\ obs = [u \in Users |-> NoObs]

Init ==
  /\ InitProgram
  /\ fin = PyNone
  /\ fout = PyNone

\* MemoryManager.get_memory
get_memory(u) == user_memories \cup {u}

\* a dialogue-stage output that is not a well-formed decision: no response,
\* not an object, a key missing, an extra key, a channel outside the two
\* values, a message that is not a string
MalformedDecision(raw) ==
  \/ ~Truthy(raw)
  \/ \A j \in 1..Len(raw.v) : raw.v[j].k # "val"
  \/ \E j \in 1..Len(raw.v) :
       /\ raw.v[j].k = "val"
       /\ LET x == raw.v[j].v
          IN \/ x.t # "dict"
             \/ {"channel", "message"} \ DOMAIN x.v # {}
             \/ DOMAIN x.v \ {"channel", "message"} # {}
             \/ x.v["channel"] \notin {Txt("to_user"), Txt("to_data_entry")}
             \/ x.v["message"].t # "str"

\* ---------------------------------------------------------------- actions
\* ConversationalAgent.start_conversation
StartConversation(u) ==
  /\ pc[u] = "idle"
  /\ LET greeting == Greeting(get_last_summary(file[u]))
     IN /\ user_memories' = get_memory(u)
        /\ history' = [history EXCEPT
                         ![u] = Append(@, Turn("assistant", greeting))]
        /\ out' = [out EXCEPT ![u] = Returned("start", greeting)]
  /\ obs' = [obs EXCEPT ![u].starts = @ + 1]
  /\ UNCHANGED <<file, pc, loc, fin, fout>>

\* the start of GeminiLLM.process: the locals of a new pipeline invocation
EnterProcess(l) ==
  [l EXCEPT !.attempt = 0, !.raw = PyNone, !.rec_obj = PyNone,
            !.msg = PyNone]

EnterProcessObs(o) ==
  [o EXCEPT !.pipeCalls = @ + 1, !.recCalls = 0, !.recBad = 0,
            !.extCalls = 0, !.extParsed = 0]

\* handle_user_input with one Memory shared by all user ids: the user turn
\* lands in every history
HandleUserInput_SharedMemory(u, text) ==
  /\ pc[u] = "idle"
  /\ user_memories' = get_memory(u)
  /\ history' = [w \in Users |-> Append(history[w], Turn("user", text))]
  /\ pc' = [pc EXCEPT ![u] = "rec"]
  /\ loc' = [loc EXCEPT ![u] = EnterProcess(NoLocals)]
  /\ obs' = [obs EXCEPT
               ![u] = EnterProcessObs([@ EXCEPT !.turns = @ + 1,
                                                !.pipeCalls = 0,
                                                !.dispatched = 0,
                                                !.llmCalls = 0])]
  /\ out' = [out EXCEPT ![u] = NoOut]
  /\ UNCHANGED <<file, fin, fout>>

\* ConversationalAgent.handle_user_input up to the first LLM call
HandleUserInput(u, text) ==
  /\ pc[u] = "idle"
  /\ user_memories' = get_memory(u)
  /\ history' = [history EXCEPT ![u] = Append(@, Turn("user", text))]
  /\ pc' = [pc EXCEPT ![u] = "rec"]
  /\ loc' = [loc EXCEPT ![u] = EnterProcess(NoLocals)]
  /\ obs' = [obs EXCEPT
               ![u] = EnterProcessObs([@ EXCEPT !.turns = @ + 1,
                                                !.pipeCalls = 0,
                                                !.dispatched = 0,
                                                !.llmCalls = 0])]
  /\ out' = [out EXCEPT ![u] = NoOut]
  /\ UNCHANGED <<file, fin, fout>>

\* GeminiLLM.process from the return of _receptionist to its own return or
\* to the call of _data_entry_worker
Route(rec_obj) ==
  IF ~Truthy(rec_obj) THEN [to |-> "return", text |-> TroubleText]
  ELSE
    LET channel == Get(rec_obj.v, "channel", Txt("to_user"))
        msg == PyStr(Strip(Get(rec_obj.v, "message", PyStr(<<>>)).v))
    IN IF channel = Txt("to_user") \/ ~Truthy(msg)
         THEN [to |-> "return",
               text |-> IF Truthy(msg) THEN msg ELSE MoreDetailText]
       ELSE IF channel = Txt("to_data_entry")
         THEN [to |-> "worker", text |-> msg]
       ELSE [to |-> "return",
             text |-> IF Truthy(msg) THEN msg ELSE ClarifyChannelText]

FallbackDecision ==
  PyDict([channel |-> Txt("to_user"), message |-> FallbackQuestion])

\* one pass of the loop of GeminiLLM._receptionist: an LLM call returning
\* raw, then, when the loop ends, GeminiLLM.process up to its next LLM call
ReceptionistCall(u, raw) ==
  /\ pc[u] = "rec"
  /\ \E obj \in {safe_json_load(raw)} :
     \E valid \in {validate_receptionist_json(obj)} :
     \E rec_obj \in {IF valid THEN obj ELSE FallbackDecision} :
     \E r \in {Route(rec_obj)} :
     LET last == loc[u].attempt = 1
     IN /\ obs' = [obs EXCEPT
                     ![u].recCalls = @ + 1,
                     ![u].llmCalls = @ + 1,
                     ![u].recBad = @ + (IF MalformedDecision(raw)
                                          THEN 1 ELSE 0)]
        /\ IF ~valid /\ ~last
             THEN /\ loc' = [loc EXCEPT ![u].attempt = 1, ![u].raw = raw]
                  /\ pc' = pc
             ELSE IF r.to = "worker"
               THEN /\ loc' = [loc EXCEPT ![u].attempt = 0, ![u].raw = raw,
                                          ![u].rec_obj = rec_obj,
                                          ![u].msg = r.text]
                    /\ pc' = [pc EXCEPT ![u] = "ext"]
               ELSE /\ loc' = [loc EXCEPT ![u].raw = raw,
                                          ![u].rec_obj = rec_obj,
                                          ![u].msg = r.text,
                                          ![u].llm_reply = r.text]
                    /\ pc' = [pc EXCEPT ![u] = "loop"]
  /\ UNCHANGED <<user_memories, history, file, out, fin, fout>>

\* "people" in tool_call.get("args", {}) raises TypeError
PeopleTestRaises(tc) == Get(tc.v, "args", EmptyDict).t \in {"none", "int"}

\* the tool call as _data_entry_worker returns it: args["people"] replaced
\* by its int when int() accepts it (any failure there is passed over)
Coerced(tc) ==
  LET a == Get(tc.v, "args", EmptyDict)
  IN IF a.t = "dict" /\ "people" \in DOMAIN a.v /\ CanInt(a.v["people"])
       THEN PyDict([tc.v EXCEPT
              !["args"] = PyDict([a.v EXCEPT
                             !["people"] = PyInt(IntOf(a.v["people"]))])])
       ELSE tc

\* GeminiLLM.process after _data_entry_worker returned tool_call
AfterWorker(tc) ==
  IF Truthy(tc) /\ validate_tool_call(tc)
    THEN [raised |-> FALSE,
          reply |-> PyDict([tool_call |-> validated_tool_call(tc)])]
  ELSE IF missing_raises(tc)
    THEN [raised |-> TRUE, reply |-> PyNone]
  ELSE IF Len(missing_from_tool_call(tc)) > 0
    THEN [raised |-> FALSE,
          reply |-> compose_missing_question(missing_from_tool_call(tc))]
  ELSE [raised |-> FALSE, reply |-> TechnicalErrorText]

\* one pass of the loop of GeminiLLM._data_entry_worker: an LLM call
\* returning raw, then, when the worker returns, the rest of GeminiLLM.process
DataEntryCall(u, raw) ==
  /\ pc[u] = "ext"
  /\ \E tc \in {extract_tool_call(raw)} :
     \E worker \in {IF Truthy(tc) THEN Coerced(tc) ELSE PyNone} :
     \E r \in {AfterWorker(worker)} :
     LET last == loc[u].attempt = 1
     IN /\ obs' = [obs EXCEPT
                     ![u].extCalls = @ + 1,
                     ![u].llmCalls = @ + 1,
                     ![u].extParsed = @ + (IF tc.t = "dict" THEN 1 ELSE 0)]
        /\ IF Truthy(tc) /\ PeopleTestRaises(tc)
             THEN /\ loc' = [loc EXCEPT ![u].raw = raw, ![u].tool_call = tc]
                  /\ pc' = [pc EXCEPT ![u] = "idle"]
                  /\ out' = [out EXCEPT ![u] = Raised("chat", "TypeError")]
           ELSE IF ~Truthy(tc) /\ ~last
             THEN /\ loc' = [loc EXCEPT ![u].attempt = 1, ![u].raw = raw]
                  /\ pc' = pc
                  /\ out' = out
           ELSE IF r.raised
                  THEN /\ loc' = [loc EXCEPT ![u].raw = raw,
                                             ![u].tool_call = worker]
                       /\ pc' = [pc EXCEPT ![u] = "idle"]
                       /\ out' = [out EXCEPT ![u] = Raised("chat", "AttributeError")]
                  ELSE /\ loc' = [loc EXCEPT ![u].raw = raw,
                                             ![u].tool_call = worker,
                                             ![u].llm_reply = r.reply]
                       /\ pc' = [pc EXCEPT ![u] = "loop"]
                       /\ out' = out
  /\ UNCHANGED <<user_memories, history, file, fin, fout>>

\* isinstance(llm_reply, dict) and "tool_call" in llm_reply
IsToolCallReply(x) == x.t = "dict" /\ "tool_call" \in DOMAIN x.v

\* the cap of the tool-call loop (agent.py: i<4, i>3)
LoopCap == 4

\* the loop test with the cap off by one (i<=4)
LoopContinues_OffByOne(l) == IsToolCallReply(l.llm_reply) /\ l.i <= LoopCap

\* the loop test of handle_user_input
LoopContinues(l) == IsToolCallReply(l.llm_reply) /\ l.i < LoopCap

\* the loop of handle_user_input is entered: i is incremented and
\* execute_tool is called with the tool call
Dispatch(u) ==
  /\ pc[u] = "loop"
  /\ LoopContinues(loc[u])
  /\ loc' = [loc EXCEPT ![u].i = @ + 1,
                        ![u].tool_call = loc[u].llm_reply.v["tool_call"],
                        ![u].exec = NoExec]
  /\ obs' = [obs EXCEPT ![u].dispatched = @ + 1]
  /\ pc' = [pc EXCEPT ![u] = "tool"]
  /\ UNCHANGED <<user_memories, history, file, out, fin, fout>>

\* the round of the loop without memory.add_tool_result
ToolReturn_NoToolTurn(u, api) ==
  /\ pc[u] = "tool"
  /\ LET r == execute_tool(loc[u].tool_call, api)
     IN loc' = [loc EXCEPT ![u] = EnterProcess([@ EXCEPT !.exec = r])]
  /\ obs' = [obs EXCEPT ![u] = EnterProcessObs(@)]
  /\ pc' = [pc EXCEPT ![u] = "rec"]
  /\ UNCHANGED <<user_memories, history, file, out, fin, fout>>

\* execute_tool runs with the API outcome api, its result is appended as a
\* tool turn and GeminiLLM.process is called again
ToolReturn(u, api) ==
  /\ pc[u] = "tool"
  /\ LET r == execute_tool(loc[u].tool_call, api)
     IN /\ history' = [history EXCEPT
                         ![u] = Append(@, Turn("tool", r.value))]
        /\ loc' = [loc EXCEPT ![u] = EnterProcess([@ EXCEPT !.exec = r])]
  /\ obs' = [obs EXCEPT ![u] = EnterProcessObs(@)]
  /\ pc' = [pc EXCEPT ![u] = "rec"]
  /\ UNCHANGED <<user_memories, file, out, fin, fout>>

\* the reply handle_user_input gives once the loop has ended
FinalReply(l) == IF l.i > LoopCap - 1 THEN ApologyText ELSE l.llm_reply

\* the loop of handle_user_input ends: the reply is appended as an
\* assistant turn and returned
ReturnReply(u) ==
  /\ pc[u] = "loop"
  /\ ~LoopContinues(loc[u])
  /\ history' = [history EXCEPT
                   ![u] = Append(@, Turn("assistant", FinalReply(loc[u])))]
  /\ out' = [out EXCEPT ![u] = Returned("chat", FinalReply(loc[u]))]
  /\ pc' = [pc EXCEPT ![u] = "idle"]
  /\ UNCHANGED <<user_memories, file, loc, obs, fin, fout>>

\* ConversationalAgent.end_session; raw is what the summarization LLM call
\* returned
EndSession(u, raw) ==
  /\ pc[u] = "idle"
  /\ LET summary == summarize(raw)
     IN /\ file' = [file EXCEPT
                      ![u] = store_summary(@, summary, history[u])]
        /\ out' = [out EXCEPT ![u] = Returned("end", ClosingText(summary))]
  /\ user_memories' = get_memory(u)
  /\ history' = [history EXCEPT ![u] = <<>>]
  /\ obs' = [obs EXCEPT
               ![u] = [NoObs EXCEPT
                         !.sessions = obs[u].sessions + 1,
                         !.stored = Append(obs[u].stored, summarize(raw))]]
  /\ loc' = [loc EXCEPT ![u] = NoLocals]
  /\ UNCHANGED <<pc, fin, fout>>

\* ------------------------------------------------------------------ inputs
UserTexts == {Txt("Book a table for 4 tomorrow at 7pm")}

Date1 == PyStr(<<"2025", "-", "08", "-", "10">>)
Time1 == PyStr(<<"19", ":", "00">>)

Decision(channel, message) ==
  PyDict([channel |-> channel, message |-> message])

ToolCall(name, args) == PyDict([name |-> name, args |-> args])

Bare(x) == Text(<<Json(x)>>)
Fenced(x) ==
  Text(<<Chunk("<fence>"), Chunk("json"), Chunk(NL), Json(x), Chunk(NL),
         Chunk("<fence>")>>)
Embedded(x) ==
  Text(<<Chunk("Sure, here it is:"), Chunk(" "), Json(x), Chunk(" "),
         Chunk("Anything else?")>>)
Prose == Text(<<Chunk("I cannot help with that.")>>)

\* booking API outcomes
ApiOk(body) == [k |-> "ok", body |-> body]
ApiRequestError == [k |-> "request_error", body |-> PyNone]
ApiBadJson == [k |-> "bad_json", body |-> PyNone]

SlotsBody == PyDict([available_slots |-> PyList(<<Txt("19:00:00")>>)])
BookedBody == PyDict([booking_reference |-> Txt("ABC123")])

ApiOutcomes ==
  {ApiOk(SlotsBody), ApiOk(BookedBody), ApiOk(EmptyDict), ApiRequestError,
   ApiBadJson}

\* the inputs of the controller specification
AvailabilityCall ==
  ToolCall(Txt("check_availability"),
           PyDict([date |-> Date1, people |-> Txt("4")]))

CtlDecisionRaws ==
  {PyNone,
   Bare(Decision(Txt("to_user"), Txt("What time would you like?"))),
   Bare(Decision(Txt("to_data_entry"), Txt("Check availability.")))}

CtlExtractionRaws == {PyNone, Bare(PyDict([tool_call |-> AvailabilityCall]))}

CtlApiOutcomes == {ApiOk(SlotsBody)}

\* ---------------------------------------------------------- specifications
\* The controller: one user id, one session opened by /start or not, up to
\* MaxTurns user turns.
Next ==
  \/ /\ history["u1"] = <<>>
     /\ StartConversation("u1")
  \/ \E text \in UserTexts :
       /\ obs["u1"].turns < MaxTurns
       /\ HandleUserInput("u1", text)
  \/ \E raw \in CtlDecisionRaws : ReceptionistCall("u1", raw)
  \/ \E raw \in CtlExtractionRaws : DataEntryCall("u1", raw)
  \/ Dispatch("u1")
  \/ \E api \in CtlApiOutcomes : ToolReturn("u1", api)
  \/ ReturnReply("u1")

Spec == Init /\ [][Next]_vars

\* a step of the request being served for u: an LLM call returns, the loop
\* test is made, the handler and the booking API return
Serve(u) ==
  \/ \E raw \in CtlDecisionRaws : ReceptionistCall(u, raw)
  \/ \E raw \in CtlExtractionRaws : DataEntryCall(u, raw)
  \/ Dispatch(u)
  \/ \E api \in CtlApiOutcomes : ToolReturn(u, api)
  \/ ReturnReply(u)

\* The controller when every outbound call returns and the request thread
\* keeps running: up to LiveTurns user turns, each served to its end.
NextLive ==
  \/ \E text \in UserTexts :
       /\ obs["u1"].turns < LiveTurns
       /\ HandleUserInput("u1", text)
  \/ Serve("u1")

SpecLive == Init /\ [][NextLive]_vars /\ WF_vars(Serve("u1"))

\* The pipeline: one user turn of one user id over the wide range of LLM
\* outputs; the booking API never answers, so the turn stops at the first
\* handler call.
Absent == [t |-> "absent", v |-> <<>>]

DateOptions == {Absent, PyNone, PyStr(<<>>), Date1}
TimeOptions == {Absent, Time1}
PeopleOptions == {Absent, PyNone, Txt("four"), Txt("4"), PyInt(4)}
ReferenceOptions == {Absent, PyNone, PyStr(<<>>), Txt(" "), Txt("ABC123")}
NewDateOptions == {Absent, Date1}
VisitDateOptions == {Absent, Date1}

\* the args mapping holding the chosen values under their keys
MakeArgs(d, t, p, b, n, v) ==
  LET choice == [date |-> d, time |-> t, people |-> p,
                 booking_reference |-> b, new_date |-> n, VisitDate |-> v]
  IN PyDict([k \in {k \in DOMAIN choice : choice[k] # Absent} |-> choice[k]])

PipeNames ==
  {Txt(n) : n \in tool_registry} \cup {Txt("order_pizza"), PyNone}

\* tool_call objects without a usable args mapping or without a name
OddToolCalls ==
  {ToolCall(n, a) :
            n \in {Txt("check_reservation"), Txt("order_pizza")},
            a \in {PyNone, PyInt(4), Txt("ABC123"),
                   PyList(<<Txt("people")>>)}}
    \cup {PyDict([name |-> Txt("cancel_reservation")]),
          PyDict([args |-> PyDict([booking_reference |-> Txt("ABC123")])]),
          EmptyDict}

ReferenceCall ==
  ToolCall(Txt("check_reservation"),
           PyDict([booking_reference |-> Txt("ABC123")]))

OddExtractionRaws ==
  {Bare(PyDict([tool_call |-> tc])) : tc \in OddToolCalls}
    \cup {Fenced(PyDict([tool_call |-> ReferenceCall])),
          Embedded(PyDict([tool_call |-> ReferenceCall])),
          Bare(ReferenceCall),
          Bare(PyDict([tool_call |-> Txt("check_reservation")])),
          Bare(PyList(<<>>)),
          Prose, Text(<<>>), PyNone}

\* modify_reservation calls carrying a party size
PartySizeOptions == {Txt("4"), Txt("four"), PyInt(4)}

PartySizeRaws ==
  {Bare(PyDict([tool_call |->
     ToolCall(Txt("modify_reservation"),
              PyDict([booking_reference |-> Txt("ABC123"),
                      PartySize |-> p]))])) : p \in PartySizeOptions}

PipeDecisions ==
  {Decision(Txt("to_user"), Txt("What time would you like?")),
   Decision(Txt("to_user"), Txt(" ")),
   Decision(Txt("to_data_entry"), Txt("Book for 4.")),
   Decision(Txt("to_data_entry"), PyStr(<<>>)),
   Decision(Txt("to_kitchen"), Txt("Fire table 4.")),
   Decision(Txt("to_user"), PyInt(4)),
   Decision(Txt("to_data_entry"), PyNone),
   PyDict([channel |-> Txt("to_user")]),
   PyDict([message |-> Txt("Hello")]),
   PyDict([channel |-> Txt("to_data_entry"), message |-> Txt("Book for 4."),
           tool |-> Txt("make_reservation")]),
   PyList(<<>>), Txt("Hello"), EmptyDict}

PipeDecisionRaws ==
  {Bare(x) : x \in PipeDecisions}
    \cup {Fenced(x) : x \in PipeDecisions}
    \cup {Embedded(x) : x \in PipeDecisions}
    \cup {Prose, Text(<<>>), PyNone}

NextPipe ==
  \/ \E text \in UserTexts :
       /\ obs["u1"].turns = 0
       /\ HandleUserInput("u1", text)
  \/ /\ pc["u1"] = "rec"
     /\ \E raw \in PipeDecisionRaws : ReceptionistCall("u1", raw)
  \/ /\ pc["u1"] = "ext"
     /\ \E n \in PipeNames, d \in DateOptions, t \in TimeOptions,
           p \in PeopleOptions, b \in ReferenceOptions,
           nd \in NewDateOptions, vd \in VisitDateOptions :
          DataEntryCall("u1",
            Bare(PyDict([tool_call |->
                           ToolCall(n, MakeArgs(d, t, p, b, nd, vd))])))
  \/ /\ pc["u1"] = "ext"
     /\ \E raw \in OddExtractionRaws \cup PartySizeRaws :
          DataEntryCall("u1", raw)
  \/ Dispatch("u1")
  \/ ReturnReply("u1")

SpecPipe == Init /\ [][NextPipe]_vars

\* The sessions: both user ids, whole requests one after the other; a
\* session is opened by /start or not, has at most one user turn answered
\* in plain text, and is ended with the summary the LLM returned.
SummaryRaws ==
  {PyNone, PyStr(<<>>), Txt("Booked for 4."),
   PyStr(<<"Booked", NL, "ref ", QT, "ABC123", QT, " ", BS, "n">>)}

MemDecisionRaws ==
  {Bare(Decision(Txt("to_user"), Txt("What time would you like?")))}

TotalSessions == obs["u1"].sessions + obs["u2"].sessions

NextMem ==
  \/ \E u \in Users :
       /\ history[u] = <<>>
       /\ StartConversation(u)
  \/ \E u \in Users, text \in UserTexts :
       /\ obs[u].turns = 0
       /\ \A w \in Users : pc[w] = "idle"
       /\ HandleUserInput(u, text)
  \/ \E u \in Users, raw \in MemDecisionRaws : ReceptionistCall(u, raw)
  \/ \E u \in Users : ReturnReply(u)
  \/ \E u \in Users :
       /\ TotalSessions < MaxSessions
       /\ \A w \in Users : pc[w] = "idle"
       /\ \E raw \in SummaryRaws : EndSession(u, raw)

SpecMem == Init /\ [][NextMem]_vars

\* The concurrent requests: the requests of the two user ids run at the
\* same time, their steps interleaved in every order; each user id has one
\* session with at most one user turn, ends it, and may start the next.
\* What each user id says, what the LLM answers its requests and what the
\* booking API answers its tool calls differ between the user ids.
ConcUserText ==
  [u1 |-> Txt("Is there a table for 4 on 2025-08-10?"),
   u2 |-> Txt("Please look up booking ABC123.")]

ConcAnswer ==
  [u1 |-> Txt("What time would you like?"),
   u2 |-> Txt("Which booking do you mean?")]

ConcRequest ==
  [u1 |-> Txt("Check availability for 4 on 2025-08-10."),
   u2 |-> Txt("Check reservation ABC123.")]

ConcToolCall == [u1 |-> AvailabilityCall, u2 |-> ReferenceCall]

ConcApiOutcome == [u1 |-> ApiOk(SlotsBody), u2 |-> ApiOk(BookedBody)]

ConcSummary ==
  [u1 |-> Txt("Asked for a table for 4."),
   u2 |-> Txt("Looked up booking ABC123.")]

ConcDecisionRaws(u) ==
  {Bare(Decision(Txt("to_user"), ConcAnswer[u])),
   Bare(Decision(Txt("to_data_entry"), ConcRequest[u]))}

NextConc ==
  \/ \E u \in Users :
       /\ history[u] = <<>>
       /\ StartConversation(u)
  \/ \E u \in Users :
       /\ obs[u].turns = 0
       /\ obs[u].sessions = 0
       /\ HandleUserInput(u, ConcUserText[u])
  \/ \E u \in Users :
       /\ pc[u] = "rec"
       /\ \E raw \in ConcDecisionRaws(u) : ReceptionistCall(u, raw)
  \/ \E u \in Users :
       /\ pc[u] = "ext"
       /\ DataEntryCall(u, Bare(PyDict([tool_call |-> ConcToolCall[u]])))
  \/ \E u \in Users : Dispatch(u)
  \/ \E u \in Users : ToolReturn(u, ConcApiOutcome[u])
  \/ \E u \in Users : ReturnReply(u)
  \/ \E u \in Users :
       /\ obs[u].sessions = 0
       /\ EndSession(u, ConcSummary[u])

SpecConc == Init /\ [][NextConc]_vars

\* The dispatcher on its own: execute_tool applied to a tool call and an
\* API outcome.
ToolArgs ==
  {PyDict(<<>>), PyNone, Txt("ABC123"),
   PyDict([booking_reference |-> Txt("ABC123")]),
   PyDict([booking_reference |-> PyStr(<<>>)]),
   PyDict([booking_reference |-> PyNone]),
   PyDict([booking_reference |-> PyStr(<<>>), VisitDate |-> Date1]),
   PyDict([booking_reference |-> Txt("ABC123"),
           SpecialRequests |-> PyStr(<<>>)]),
   PyDict([booking_reference |-> Txt("ABC123"), VisitDate |-> Date1]),
   PyDict([booking_reference |-> Txt("ABC123"), VisitDate |-> Txt("tomorrow")]),
   PyDict([booking_reference |-> Txt("ABC123"), VisitTime |-> Time1]),
   PyDict([booking_reference |-> Txt("ABC123"), PartySize |-> Txt("four")]),
   PyDict([booking_reference |-> Txt("ABC123"), PartySize |-> PyInt(4)]),
   PyDict([booking_reference |-> Txt("ABC123"), new_date |-> Date1]),
   PyDict([date |-> Date1, people |-> PyInt(4)]),
   PyDict([date |-> Date1, people |-> PyInt(0)]),
   PyDict([date |-> Txt("tomorrow"), people |-> PyInt(4)]),
   PyDict([date |-> Date1, time |-> Time1, people |-> PyInt(4)]),
   PyDict([date |-> Date1, time |-> Time1, people |-> Txt("4")]),
   PyDict([date |-> Date1, time |-> Txt("7pm"), people |-> PyInt(4)]),
   PyDict([date |-> PyStr(<<"2025", "-", "8", "-", "1">>), time |-> Time1,
           people |-> PyInt(4)]),
   PyDict([date |-> Date1, time |-> PyStr(<<"7", ":", "00">>),
           people |-> PyInt(4)]),
   PyDict([date |-> Txt("tomorrow"), time |-> Time1, people |-> PyInt(4)]),
   PyDict([date |-> Date1, time |-> Time1, people |-> PyInt(4),
           SpecialRequests |-> Txt("window seat")]),
   PyDict([date |-> Date1, time |-> Time1, people |-> PyInt(4),
           special_requests |-> Txt("window seat")]),
   PyDict([k \in {"date", "time", "people", "Customer[FirstName]"} |->
             CASE k = "date" -> Date1
               [] k = "time" -> Time1
               [] k = "people" -> PyInt(4)
               [] OTHER -> Txt("Ann")]),
   PyDict([date |-> Date1, time |-> Time1, people |-> PyInt(4),
           RoomNumber |-> Txt("12")])}

ToolInputs ==
  {[call |-> ToolCall(n, a), api |-> api] :
     n \in PipeNames, a \in ToolArgs, api \in ApiOutcomes}

InitTool ==
  /\ InitProgram
  /\ fin \in ToolInputs
  /\ fout = PyNone

ApplyExecuteTool ==
  /\ fout = PyNone
  /\ fout' = execute_tool(fin.call, fin.api)
  /\ UNCHANGED <<user_memories, history, file, pc, loc, out, obs, fin>>

NextTool == ApplyExecuteTool

SpecTool == InitTool /\ [][NextTool]_vars

\* ------------------------------------------------------------------ claims
ToolTurns(u) == {j \in 1..Len(history[u]) : history[u][j].role = "tool"}

\* C1: in every handle_user_input at most 4 tool calls are dispatched, and
\* each invocation starts counting at 0: during its first pipeline
\* invocation nothing has been dispatched yet.
C1_DispatchCap ==
  \A u \in Users :
    /\ obs[u].dispatched <= 4
    /\ (pc[u] \in {"rec", "ext"} /\ obs[u].pipeCalls = 1
          => obs[u].dispatched = 0 /\ loc[u].i = 0)

\* a second user turn of the session dispatches 4 tool calls after the first
\* one did
C1_Witness ==
  \E u \in Users :
    /\ obs[u].turns = 2
    /\ obs[u].dispatched = 4
    /\ Cardinality(ToolTurns(u)) = 8

\* C2: the reply of handle_user_input is the apology exactly when the
\* pipeline returned a tool call that was not dispatched (the 5th would-be
\* dispatch); when the last pipeline invocation returned plain text, that
\* text is the reply.
C2_ApologyOnlyOverCap ==
  \A u \in Users :
    out[u].op = "chat" /\ out[u].kind = "returned"
      => out[u].value = IF loc[u].llm_reply.t = "dict"
                          THEN ApologyText
                          ELSE loc[u].llm_reply

\* ---- what a tool call carries, read off the value itself
\* the tool name of a tool call, "" when it has no text name
NameOf(tc) ==
  IF /\ tc.t = "dict"
     /\ "name" \in DOMAIN tc.v
     /\ tc.v["name"].t = "str"
     /\ Len(tc.v["name"].v) = 1
    THEN tc.v["name"].v[1]
    ELSE ""

\* a value that is not None and not an empty or white-space-only string
NonEmptyValue(x) ==
  /\ x.t # "none"
  /\ x.t = "str" => \E j \in 1..Len(x.v) : x.v[j] \notin {" ", "\n", "\t"}

\* the tool call has key k in its args mapping with a non-empty value
Carries(tc, k) ==
  /\ "args" \in DOMAIN tc.v
  /\ tc.v["args"].t = "dict"
  /\ k \in DOMAIN tc.v["args"].v
  /\ NonEmptyValue(tc.v["args"].v[k])

\* the required keys of the call's tool it does not carry, in schema order
Lacking(tc) ==
  SelectSeq(SCHEMAS[NameOf(tc)].required, LAMBDA k : ~Carries(tc, k))

\* the extraction stage of the current pipeline invocation handed a tool
\* call to process, and process has ended (by a return or by an exception)
Extracted(u) ==
  /\ obs[u].extCalls > 0
  /\ pc[u] \in {"loop", "idle"}
  /\ loc[u].tool_call.t = "dict"

\* C3: every tool call that is dispatched has a name that is in the schema
\* registry and in the handler registry, and carries every required key of
\* that tool with a non-empty value.
C3_DispatchedCallsAreComplete ==
  \A u \in Users :
    pc[u] = "tool" =>
      /\ NameOf(loc[u].tool_call) \in DOMAIN SCHEMAS
      /\ NameOf(loc[u].tool_call) \in tool_registry
      /\ Lacking(loc[u].tool_call) = <<>>

\* a complete make_reservation call is dispatched
C3_Witness ==
  \E u \in Users :
    /\ pc[u] = "tool"
    /\ obs[u].dispatched = 1
    /\ NameOf(loc[u].tool_call) = "make_reservation"
    /\ Carries(loc[u].tool_call, "time")

\* a field name as the user reads it
HumanName(k) ==
  IF k = "booking_reference" THEN <<"booking", " ", "reference">> ELSE <<k>>

\* the question naming the first one or two fields of m
QuestionNaming(m) ==
  IF Len(m) = 1
    THEN PyStr(<<"Got it, could you please share the ">>
               \o HumanName(m[1]) \o <<"?">>)
    ELSE PyStr(<<"Thanks! I still need: ">> \o HumanName(m[1])
               \o <<", ">> \o HumanName(m[2]) \o <<".">>)

\* C4: for every tool name in the registry and every extracted tool call
\* that lacks at least one required field of that tool, the pipeline returns
\* the clarifying question naming the missing required fields in schema
\* order, underscores replaced by spaces: the one field when one is missing,
\* the first two when more are.
C4_MissingFieldsAreNamed ==
  \A u \in Users :
    /\ Extracted(u)
    /\ NameOf(loc[u].tool_call) \in tool_registry
    /\ Lacking(loc[u].tool_call) # <<>>
    => loc[u].llm_reply = QuestionNaming(Lacking(loc[u].tool_call))

\* the call carries a new date or a new time, under the names of the schema
\* or under the names the pipeline looks for
CarriesNewDateOrTime(tc) ==
  \E k \in {"VisitDate", "VisitTime", "new_date", "new_time"} : Carries(tc, k)

\* C5: an extracted modify_reservation call that carries neither a new date
\* nor a new time is not dispatched and the pipeline returns the
\* date-or-time question; one that carries a new date or time under the
\* schema's names VisitDate / VisitTime does not get that question.
C5_ModifyNeedsDateOrTime ==
  \A u \in Users :
    /\ (pc[u] = "tool" /\ NameOf(loc[u].tool_call) = "modify_reservation"
          => CarriesNewDateOrTime(loc[u].tool_call))
    /\ (Extracted(u) /\ NameOf(loc[u].tool_call) = "modify_reservation"
          => IF CarriesNewDateOrTime(loc[u].tool_call)
               THEN \/ ~(\/ Carries(loc[u].tool_call, "VisitDate")
                         \/ Carries(loc[u].tool_call, "VisitTime"))
                    \/ loc[u].llm_reply # DateOrTimeQuestion
               ELSE loc[u].llm_reply = DateOrTimeQuestion)

\* the output is one JSON object, bare or fenced, with exactly the keys
\* channel and message, a channel of the two values and a text message
WellFormedDecision(raw) ==
  /\ raw.t = "text"
  /\ \E x \in PipeDecisions :
       /\ raw \in {Bare(x), Fenced(x)}
       /\ x.t = "dict"
       /\ DOMAIN x.v = {"channel", "message"}
       /\ x.v["channel"] \in {Txt("to_user"), Txt("to_data_entry")}
       /\ x.v["message"].t = "str"

\* the object a bare or fenced output holds
DecisionIn(raw) ==
  (CHOOSE tok \in {raw.v[j] : j \in 1..Len(raw.v)} : tok.k = "val").v

\* C6: the dialogue stage calls the LLM at most twice; when every output of
\* the invocation was malformed it called twice, no extraction call is made
\* and the pipeline returns the fixed clarifying question as plain text;
\* when the first output was malformed and the second is well-formed, the
\* second is the decision used.
C6_MalformedDecisionsFallBack ==
  \A u \in Users :
    /\ obs[u].recCalls <= 2
    /\ (pc[u] # "rec" /\ obs[u].recCalls > 0
          /\ obs[u].recBad = obs[u].recCalls
          => /\ obs[u].recCalls = 2
             /\ obs[u].extCalls = 0
             /\ obs[u].dispatched = 0
             /\ pc[u] \in {"loop", "idle"}
             /\ loc[u].llm_reply = FallbackQuestion
             /\ (pc[u] = "idle"
                   => out[u] = Returned("chat", FallbackQuestion)))
    /\ (pc[u] # "rec" /\ obs[u].recCalls = 2 /\ obs[u].recBad = 1
          /\ obs[u].extCalls = 0 /\ WellFormedDecision(loc[u].raw)
          => loc[u].rec_obj = DecisionIn(loc[u].raw))

\* two malformed outputs, the second an object with an extra key, and the
\* user got the fixed question
C6_Witness ==
  \E u \in Users :
    /\ obs[u].recCalls = 2
    /\ obs[u].recBad = 2
    /\ loc[u].raw.t = "text"
    /\ \E j \in 1..Len(loc[u].raw.v) :
         /\ loc[u].raw.v[j].k = "val"
         /\ loc[u].raw.v[j].v.t = "dict"
         /\ "tool" \in DOMAIN loc[u].raw.v[j].v.v
    /\ out[u] = Returned("chat", FallbackQuestion)

\* C7: process never raises an exception to handle_user_input, so no
\* request ends with one.
C7_ProcessNeverRaises ==
  \A u \in Users : out[u].kind # "raised"

\* C8: execute_tool always returns: for a name outside the handler registry
\* the unknown-tool text, no handler called; when the handler raises
\* ToolError the text "[Tool Error] " followed by its message; when the
\* handler call fails otherwise (arguments it does not accept included) a
\* text that starts with "[Execution Error]" and ends with the message.
C8_ExecuteToolLabelsFailures ==
  fout # PyNone =>
    /\ fout.outcome \in {"unknown", "return", "ToolError", "Exception"}
    /\ IF NameOf(fin.call) \notin tool_registry
         THEN /\ ~fout.called
              /\ fout.sent = <<>>
              /\ fout.value = PyStr(<<"[Error] Unknown tool: ">>
                                    \o StrOf(fin.call.v["name"]))
         ELSE LET r == RunHandler(NameOf(fin.call), fin.call.v["args"],
                                  fin.api)
                  n == Len(fout.value.v)
                  m == Len(r.value.v)
              IN /\ fout.called
                 /\ r.kind = "return" => fout.value = r.value
                 /\ r.kind = "ToolError"
                      => fout.value = PyStr(<<"[Tool Error] ">> \o r.value.v)
                 /\ r.kind = "Exception"
                      => /\ fout.value.t = "str"
                         /\ n > m
                         /\ fout.value.v[1] =
                              "[Execution Error] Something went wrong while using "
                         /\ SubSeq(fout.value.v, n - m + 1, n) = r.value.v

\* make_reservation called with arguments it does not accept: nothing is
\* sent and the execution-error text is returned
C8_Witness ==
  /\ fout # PyNone
  /\ NameOf(fin.call) = "make_reservation"
  /\ fout.called
  /\ fout.outcome = "Exception"
  /\ fout.sent = <<>>
  /\ fout.value.t = "str"

\* C9: for every tool of the registry and every outcome of its handler the
\* value execute_tool returns is a text string, and so is the content of
\* every tool turn of the history.
C9_ToolResultIsText ==
  /\ fout # PyNone /\ NameOf(fin.call) \in tool_registry
       => fout.value.t = "str"
  /\ \A u \in Users :
       \A j \in ToolTurns(u) : history[u][j].content.t = "str"

\* C10: once a session of a user id has ended, get_last_summary gives for
\* that user id the text passed to the latest store_summary, and the
\* greeting of the next start_conversation quotes it.
C10_LastSummaryRoundTrip ==
  \A u \in Users :
    obs[u].stored # <<>> =>
      LET latest == obs[u].stored[Len(obs[u].stored)]
      IN /\ get_last_summary(file[u]) = latest
         /\ out[u].op = "start"
              => out[u].value =
                   PyStr(<<"Welcome back! Last time, you said: ", "\"">>
                         \o latest.v
                         \o <<"\"", ". How can I assist you today?">>)

\* a user id starts a third session after two ended ones with different
\* summaries, the later one holding a line break, quotes and a backslash
C10_Witness ==
  \E u \in Users :
    /\ Len(obs[u].stored) = 2
    /\ obs[u].stored[1] # obs[u].stored[2]
    /\ \E j \in 1..Len(obs[u].stored[2].v) : obs[u].stored[2].v[j] = "\n"
    /\ \E j \in 1..Len(obs[u].stored[2].v) : obs[u].stored[2].v[j] = "\\"
    /\ out[u].op = "start"
    /\ out[u].kind = "returned"

\* the argument names that hold a party size
PartySizeKeys == {"people", "PartySize"}

\* C11: in every tool call that is dispatched, each party-size argument
\* (people, PartySize) it carries is an integer: numeric strings have been
\* coerced and calls whose party size cannot be coerced are not dispatched.
C11_PartySizeIsInteger ==
  \A u \in Users :
    pc[u] = "tool" =>
      \A k \in PartySizeKeys :
        /\ loc[u].tool_call.v["args"].t = "dict"
        /\ k \in DOMAIN loc[u].tool_call.v["args"].v
        => loc[u].tool_call.v["args"].v[k].t = "int"

\* the tools that work on an existing booking
ReferenceTools ==
  {"check_reservation", "modify_reservation", "cancel_reservation"}

\* the handler of the call is entered: its arguments are a mapping of
\* parameters of the handler that has the booking reference
HandlerEntered(call) ==
  /\ NameOf(call) \in ReferenceTools
  /\ call.v["args"].t = "dict"
  /\ "booking_reference" \in DOMAIN call.v["args"].v
  /\ DOMAIN call.v["args"].v \subseteq
       {"booking_reference"}
         \cup (IF NameOf(call) = "modify_reservation"
                 THEN {"VisitDate", "VisitTime", "PartySize",
                       "SpecialRequests", "IsLeaveTimeConfirmed"}
                 ELSE {})

\* the booking reference of the call is None or the empty string
EmptyReference(call) ==
  call.v["args"].v["booking_reference"] \in {PyNone, PyStr(<<>>)}

\* the call names no field to change: no optional argument, or only an
\* empty special request
NoFieldToChange(call) ==
  \A k \in DOMAIN call.v["args"].v :
    \/ k = "booking_reference"
    \/ k = "SpecialRequests" /\ call.v["args"].v[k] = PyStr(<<>>)

\* C12: check_reservation, modify_reservation and cancel_reservation
\* called with an empty booking reference raise ToolError with no HTTP
\* request made; so does modify_reservation called with a reference and no
\* field to change.
C12_ReferenceCheckedBeforeRequest ==
  fout # PyNone /\ HandlerEntered(fin.call) =>
    /\ EmptyReference(fin.call)
         => fout.outcome = "ToolError" /\ fout.sent = <<>>
    /\ NameOf(fin.call) = "modify_reservation" /\ NoFieldToChange(fin.call)
         => fout.outcome = "ToolError" /\ fout.sent = <<>>

\* check_reservation was called with the empty string as reference
C12_Witness ==
  /\ fout # PyNone
  /\ fin.call = ToolCall(Txt("check_reservation"),
                         PyDict([booking_reference |-> PyStr(<<>>)]))
  /\ fout.called
  /\ fout.outcome = "ToolError"
  /\ fout.sent = <<>>

\* the history of u ends with one user turn followed by k tool turns
EndsWithUserAndTools(h, k) ==
  /\ Len(h) >= k + 1
  /\ h[Len(h) - k].role = "user"
  /\ \A j \in (Len(h) - k + 1)..Len(h) : h[j].role = "tool"

\* what the user turn being served, or the one just answered, has put in
\* the history of u
TurnShape(u) ==
  LET h == history[u]
      k == obs[u].dispatched
  IN /\ pc[u] \in {"rec", "ext", "loop"} => EndsWithUserAndTools(h, k)
     /\ pc[u] = "tool" => EndsWithUserAndTools(h, k - 1)
     /\ pc[u] = "idle" /\ out[u].op = "chat" /\ out[u].kind = "returned"
          => /\ Len(h) >= k + 2
             /\ h[Len(h)] = Turn("assistant", out[u].value)
             /\ EndsWithUserAndTools(SubSeq(h, 1, Len(h) - 1), k)

\* a step leaves the history of u alone or appends one turn to it
AppendOnly(u) ==
  \/ history'[u] = history[u]
  \/ /\ Len(history'[u]) = Len(history[u]) + 1
     /\ SubSeq(history'[u], 1, Len(history[u])) = history[u]

\* C13: a handle_user_input that returns has appended one user turn, one
\* tool turn per dispatch (each before the pipeline is invoked again) and
\* then one assistant turn holding the returned reply, and within a session
\* every step only appends to the history.
C13_TurnsAreAppendedInOrder ==
  /\ [](\A u \in Users : TurnShape(u))
  /\ [][\A u \in Users : AppendOnly(u)]_vars

\* the second user turn of a session is answered after two dispatches
C13_Witness ==
  \E u \in Users :
    /\ obs[u].turns = 2
    /\ obs[u].dispatched = 2
    /\ pc[u] = "idle"
    /\ out[u].op = "chat"
    /\ out[u].kind = "returned"
    /\ Len(history[u]) >= 6

\* the counts of the user turn of u and of its current pipeline invocation
\* stay within their caps
CallsBounded(u) ==
  /\ obs[u].pipeCalls <= 5
  /\ obs[u].recCalls <= 2
  /\ obs[u].extCalls <= 2
  /\ obs[u].llmCalls <= 20
  /\ obs[u].dispatched <= 4
  /\ loc[u].attempt <= 1

\* C14: when every outbound call returns, every handle_user_input ends, and
\* it makes at most 5 pipeline invocations of at most 2 dialogue-stage and
\* 2 extraction-stage LLM calls each: at most 20 LLM calls and 4 dispatches.
C14_TurnTerminatesWithinCaps ==
  /\ [](\A u \in Users : CallsBounded(u))
  /\ \A u \in Users : (pc[u] # "idle") ~> (pc[u] = "idle")

\* a user turn that used all 20 LLM calls and all 4 dispatches has ended
C14_Witness ==
  \E u \in Users :
    /\ obs[u].llmCalls = 20
    /\ obs[u].pipeCalls = 5
    /\ obs[u].dispatched = 4
    /\ pc[u] = "idle"
    /\ out[u].op = "chat"

\* the tools that send a visit date or time
VisitTools == {"check_availability", "make_reservation", "modify_reservation"}

\* x is a text of the form YYYY-MM-DD / HH:MM:SS: four-digit year,
\* two-digit month, day, hour, minute and second
IsoDate(x) ==
  /\ x.t = "str"
  /\ Len(x.v) = 5
  /\ x.v[1] \in {"2025"} /\ x.v[2] = "-" /\ x.v[3] \in {"08"}
  /\ x.v[4] = "-" /\ x.v[5] \in {"10"}

IsoTime(x) ==
  /\ x.t = "str"
  /\ Len(x.v) = 5
  /\ x.v[1] \in {"19"} /\ x.v[2] = ":" /\ x.v[3] \in {"00"}
  /\ x.v[4] = ":" /\ x.v[5] \in {"00"}

\* the visit date and the visit time the call was given, None when absent
GivenDate(call) ==
  IF call.v["args"].t # "dict" THEN PyNone
  ELSE IF NameOf(call) = "modify_reservation"
    THEN Get(call.v["args"].v, "VisitDate", PyNone)
    ELSE Get(call.v["args"].v, "date", PyNone)

GivenTime(call) ==
  IF call.v["args"].t # "dict" THEN PyNone
  ELSE IF NameOf(call) = "modify_reservation"
    THEN Get(call.v["args"].v, "VisitTime", PyNone)
    ELSE Get(call.v["args"].v, "time", PyNone)

\* an HH:MM text, which is normalized to HH:MM:SS
IsHourMinute(x) == x.t = "str" /\ IsoTime(PyStr(x.v \o <<":", "00">>))

\* C15: every request that check_availability, make_reservation or
\* modify_reservation sends carries its visit date as YYYY-MM-DD and its
\* visit time, if any, as HH:MM:SS; a call given a date or a time that is
\* not in an accepted form raises ToolError and sends nothing.
C15_DatesAndTimesAreValidated ==
  fout # PyNone /\ NameOf(fin.call) \in VisitTools =>
    /\ \A j \in 1..Len(fout.sent) :
         /\ "VisitDate" \in DOMAIN fout.sent[j].data
              => IsoDate(fout.sent[j].data["VisitDate"])
         /\ "VisitTime" \in DOMAIN fout.sent[j].data
              => IsoTime(fout.sent[j].data["VisitTime"])
    /\ fout.called
         /\ \/ GivenDate(fin.call).t = "str" /\ ~IsoDate(GivenDate(fin.call))
                 /\ GivenDate(fin.call) # PyStr(<<>>)
            \/ GivenTime(fin.call).t = "str" /\ ~IsoTime(GivenTime(fin.call))
                 /\ ~IsHourMinute(GivenTime(fin.call))
                 /\ GivenTime(fin.call) # PyStr(<<>>)
         => fout.outcome \in {"ToolError", "Exception"} /\ fout.sent = <<>>

\* what the summarization LLM call gives when it failed (_call_openrouter
\* caught the failure) or returned empty text
FailedSummaryRaws == {PyNone, PyStr(<<>>)}

\* the record written for the placeholder summary and the history h
PlaceholderRecord(h) ==
  <<FCh("{"), FTime, FCh("\""), FCh("[Summary unavailable]"), FCh("\""),
    FMsgs(h), FCh("}"), FCh("\n")>>

\* C16: when the summarization LLM call fails or returns empty text,
\* end_session returns, the summary it persists and quotes in its reply is
\* the literal "[Summary unavailable]", and the short-term history is
\* cleared.
C16_SummaryFailureGivesPlaceholder ==
  [][\A u \in Users : \A raw \in FailedSummaryRaws :
       EndSession(u, raw)
         => /\ file'[u] = file[u] \o PlaceholderRecord(history[u])
            /\ history'[u] = <<>>
            /\ out'[u] =
                 Returned("end",
                   PyStr(<<"Thanks for chatting! I've saved this summary: ",
                           "\n", "\n", "\"", "[Summary unavailable]",
                           "\"">>))]_vars

\* a session with turns has ended with the placeholder as its summary
C16_Witness ==
  \E u \in Users :
    /\ out[u].op = "end"
    /\ out[u].kind = "returned"
    /\ history[u] = <<>>
    /\ obs[u].stored # <<>>
    /\ obs[u].stored[Len(obs[u].stored)] = Txt("[Summary unavailable]")
    /\ file[u] # <<>>
    /\ file[u][Len(file[u]) - 2].k = "messages"
    /\ Len(file[u][Len(file[u]) - 2].v) >= 3

\* the places of the file of u where a line ends
LineEnds(f) == {j \in 1..Len(f) : f[j] = FCh("\n")}

\* the turns of role r in the history h
TurnsOf(h, r) == {j \in 1..Len(h) : h[j].role = r}

\* a step that is an end_session of u: it appends to the file of u one line
\* whose messages are the history as it was, and empties the history
EndSessionStep(u) ==
  /\ Len(file'[u]) > Len(file[u])
  /\ SubSeq(file'[u], 1, Len(file[u])) = file[u]
  /\ LineEnds(file'[u]) = LineEnds(file[u]) \cup {Len(file'[u])}
  /\ file'[u][Len(file'[u]) - 2] = FMsgs(history[u])
  /\ history'[u] = <<>>

\* C17: each end_session appends exactly one record to the log of its user
\* id and leaves the earlier records as they were; the record holds the
\* history as it was before the clear; afterwards the history is empty, so a
\* later handle_user_input sees only turns of the new session; nothing else
\* writes the log.
C17_OneRecordPerEndedSession ==
  /\ [](\A u \in Users :
          /\ Cardinality(LineEnds(file[u])) = obs[u].sessions
          /\ Cardinality(TurnsOf(history[u], "user")) = obs[u].turns
          /\ Len(history[u]) <= obs[u].starts + 2 * obs[u].turns)
  /\ [][\A u \in Users :
          IF obs'[u].sessions # obs[u].sessions
            THEN EndSessionStep(u)
            ELSE file'[u] = file[u]]_vars

\* a user id has ended a second session that had turns; its log holds two
\* records and its history is empty
C17_Witness ==
  \E u \in Users :
    /\ obs[u].sessions = 2
    /\ Cardinality(LineEnds(file[u])) = 2
    /\ history[u] = <<>>
    /\ out[u].op = "end"
    /\ Len(file[u][Len(file[u]) - 2].v) >= 2

\* x is a dialogue-stage decision of the expected shape
DecisionShaped(x) ==
  /\ x.t = "dict"
  /\ DOMAIN x.v = {"channel", "message"}
  /\ x.v["channel"] \in {Txt("to_user"), Txt("to_data_entry")}
  /\ x.v["message"].t = "str"

\* x is an extraction-stage object of the expected shape: a tool_call
\* object with a name and args
ToolCallShaped(x) ==
  /\ x.t = "dict"
  /\ DOMAIN x.v = {"tool_call"}
  /\ x.v["tool_call"].t = "dict"
  /\ DOMAIN x.v["tool_call"].v = {"name", "args"}

\* the objects an output holds
ObjectsIn(raw) ==
  IF raw.t # "text" THEN {}
  ELSE {raw.v[j].v : j \in {m \in 1..Len(raw.v) : raw.v[m].k = "val"}}

\* the output is x bare, fenced or embedded in text
Holds(raw, x) == raw \in {Bare(x), Fenced(x), Embedded(x)}

\* C18: in both stages an output that holds one well-formed object of the
\* expected shape, bare, fenced or embedded in text, is parsed to that
\* object and consumes no retry.
C18_TolerantParsingInBothStages ==
  \A u \in Users :
    /\ pc[u] = "rec" /\ loc[u].attempt = 1
         => ~\E x \in ObjectsIn(loc[u].raw) :
               DecisionShaped(x) /\ Holds(loc[u].raw, x)
    /\ pc[u] = "ext" /\ loc[u].attempt = 1
         => ~\E x \in ObjectsIn(loc[u].raw) :
               ToolCallShaped(x) /\ Holds(loc[u].raw, x)
    /\ pc[u] # "rec" /\ obs[u].recCalls > 0 /\ obs[u].extCalls = 0
         => \A x \in ObjectsIn(loc[u].raw) :
              DecisionShaped(x) /\ Holds(loc[u].raw, x)
                => loc[u].rec_obj = x

\* the output parses into a tool_call object: it holds, bare, fenced or
\* embedded, an object with an object under "tool_call"
ParsesToToolCall(raw) ==
  \E x \in ObjectsIn(raw) :
    /\ x.t = "dict"
    /\ "tool_call" \in DOMAIN x.v
    /\ x.v["tool_call"].t = "dict"
    /\ Holds(raw, x)

\* the extraction stage of the current pipeline invocation is over
ExtractionOver(u) == obs[u].extCalls > 0 /\ pc[u] \in {"loop", "idle"}

\* C19: the extraction stage makes a second LLM call exactly when the
\* output of the first did not parse into a tool_call object; when both
\* outputs fail to parse, or the parsed call names no tool of the registry,
\* the pipeline returns the technical-error text and nothing is dispatched.
C19_ExtractionRetriesOnlyParseFailures ==
  \A u \in Users :
    /\ pc[u] = "ext" /\ loc[u].attempt = 1 => ~ParsesToToolCall(loc[u].raw)
    /\ ExtractionOver(u) /\ obs[u].extCalls = 1
         => ParsesToToolCall(loc[u].raw)
    /\ ExtractionOver(u)
         /\ \/ ~ParsesToToolCall(loc[u].raw)
            \/ NameOf(loc[u].tool_call) \notin tool_registry
         => /\ loc[u].llm_reply = TechnicalErrorText
            /\ out[u].kind # "raised"
            /\ obs[u].dispatched = 0

\* everything the program keeps for user id u
UserState(u) == <<history[u], file[u], pc[u], loc[u], out[u], obs[u]>>

\* the turns the requests serving u can append on their own
OwnTurns(u) ==
  {Turn("user", ConcUserText[u]),
   Turn("assistant", ConcAnswer[u]),
   Turn("assistant", ApologyText),
   Turn("assistant", GenericGreeting),
   Turn("assistant",
        PyStr(<<"Welcome back! Last time, you said: ", "\"">>
              \o ConcSummary[u].v
              \o <<"\"", ". How can I assist you today?">>)),
   Turn("tool", IF u = "u1" THEN SlotsBody.v["available_slots"]
                            ELSE BookedBody)}

\* h holds only turns of u
OwnHistory(h, u) == \A j \in 1..Len(h) : h[j] \in OwnTurns(u)

\* the log of u holds only records of u
OwnLog(u) ==
  /\ \A j \in 1..Len(file[u]) :
       file[u][j].k = "messages" => OwnHistory(file[u][j].v, u)
  /\ get_last_summary(file[u]) \in {PyNone, ConcSummary[u]}

\* C20: under every interleaving of the requests of distinct user ids, a
\* step serving one user id changes nothing kept for the other, every turn
\* in a history and every record in a log comes from a request of its own
\* user id, and each user turn has the shape it has alone: the user turn,
\* one tool turn per dispatch, the assistant turn.
C20_UsersAreIsolated ==
  /\ [](\A u \in Users :
          OwnHistory(history[u], u) /\ OwnLog(u) /\ TurnShape(u))
  /\ [][\A u \in Users : \A w \in Users \ {u} :
          UserState(u)' # UserState(u) => UserState(w)' = UserState(w)]_vars

\* the request of u1 has returned after one dispatch while the request of
\* u2, started before it returned, is in its second dispatch
C20_Witness ==
  /\ out["u1"].op = "chat"
  /\ out["u1"].kind = "returned"
  /\ obs["u1"].dispatched = 1
  /\ pc["u2"] = "tool"
  /\ obs["u2"].dispatched = 2
  /\ Len(history["u1"]) >= 3
  /\ Len(history["u2"]) >= 2

\* the argument names SCHEMAS lists for a tool, required and optional
SchemaKeys(name) ==
  {SCHEMAS[name].required[j] : j \in 1..Len(SCHEMAS[name].required)}
    \cup {SCHEMAS[name].optional[j] : j \in 1..Len(SCHEMAS[name].optional)}

\* the call is one the extraction stage lets through with arguments named
\* by the schema of its tool: it passes _validate_tool_call and every key
\* of its args is a required or an optional key of SCHEMAS
SchemaConformant(call) ==
  /\ NameOf(call) \in tool_registry
  /\ validate_tool_call(call)
  /\ call.v["args"].t = "dict"
  /\ DOMAIN call.v["args"].v \subseteq SchemaKeys(NameOf(call))

\* C21: for every tool of the registry and every tool call that passes
\* validation with argument keys drawn from the tool's schema, the handler
\* accepts the keyword-expanded arguments: tool_func(**args) binds, and
\* execute_tool does not end in an "[Execution Error]" with nothing sent
\* because of an argument name.
C21_SchemaKeysAreHandlerParameters ==
  fout # PyNone /\ SchemaConformant(fin.call) =>
    /\ Binds(NameOf(fin.call), fin.call.v["args"])
    /\ ~(fout.outcome = "Exception" /\ fout.sent = <<>>)

====
